---- MODULE Spec2Model ----
(***************************************************************************)
(* Model of PortfolioMetrics (src/src/models/portfolio_metrics.py) and of  *)
(* the PortfolioComponent handlers that build its inputs                   *)
(* (src/src/components/portfolio.py).                                      *)
(*                                                                         *)
(* Python floats are modelled as exact rationals <<n, d>> in lowest terms  *)
(* with d > 0; rounding error of the float arithmetic is not modelled.     *)
(* A Python dict is a TLA+ function whose DOMAIN is the dict's key set.    *)
(***************************************************************************)
EXTENDS Integers, Sequences, FiniteSets, TLC

\* holdings, prices_local, fx_rates, sector_map: what a page render passes to
\* PortfolioMetrics; args: the other arguments of a call; call, ret: the last
\* call made and what it returned.
VARIABLES holdings, prices_local, fx_rates, sector_map, args, call, ret

vars == <<holdings, prices_local, fx_rates, sector_map, args, call, ret>>

----------------------------------------------------------------------------
(* Exact rational arithmetic standing for Python float arithmetic.          *)

Abs(n) == IF n < 0 THEN -n ELSE n

RECURSIVE GCD(_, _)
GCD(a, b) == IF b = 0 THEN a ELSE GCD(b, a % b)

Norm(n, d) ==
    LET g == GCD(Abs(n), Abs(d))
        s == IF d < 0 THEN -1 ELSE 1
    IN  <<(s * n) \div g, (s * d) \div g>>

R(n) == <<n, 1>>
Zero == <<0, 1>>
One == <<1, 1>>

\* The outcome of a float division by zero (Python raises ZeroDivisionError).
ZeroDivisionError == <<0, 0>>

\* Python's None.
None == <<>>

\* Common factors are cancelled before multiplying, to keep the integers small.
RAdd(a, b) ==
    LET g == GCD(a[2], b[2])
    IN  Norm(a[1] * (b[2] \div g) + b[1] * (a[2] \div g), (a[2] \div g) * b[2])
RNeg(a) == <<-a[1], a[2]>>
RSub(a, b) == RAdd(a, RNeg(b))
RMul(a, b) ==
    LET g1 == GCD(Abs(a[1]), b[2])
        g2 == GCD(Abs(b[1]), a[2])
    IN  Norm((a[1] \div g1) * (b[1] \div g2), (a[2] \div g2) * (b[2] \div g1))
RInv(b) == IF b[1] < 0 THEN <<-b[2], -b[1]>> ELSE <<b[2], b[1]>>
RDiv(a, b) == IF b[1] = 0 THEN ZeroDivisionError ELSE RMul(a, RInv(b))
RLt(a, b) ==
    LET g == GCD(a[2], b[2])
    IN  a[1] * (b[2] \div g) < b[1] * (a[2] \div g)
RLe(a, b) == ~RLt(b, a)
RMin(a, b) == IF RLt(b, a) THEN b ELSE a
RAbs(a) == <<Abs(a[1]), a[2]>>

\* a < 1/e and a > 1/e for a large positive integer e, without forming a[1] * e.
RLtInv(a, e) == a[1] <= 0 \/ a[1] <= (a[2] - 1) \div e
RGtInv(a, e) == a[1] > 0 /\ a[1] > a[2] \div e
RLeInv(a, e) == ~RGtInv(a, e)

\* dict helpers
EmptyMap == [k \in {} |-> Zero]
Put(m, k, v) == [x \in (DOMAIN m) \cup {k} |-> IF x = k THEN v ELSE m[x]]
Get(m, k, default) == IF k \in DOMAIN m THEN m[k] ELSE default

RECURSIVE SumOver(_, _)
SumOver(m, keys) ==
    IF keys = {} THEN Zero
    ELSE LET k == CHOOSE x \in keys : TRUE
         IN  RAdd(m[k], SumOver(m, keys \ {k}))

\* sum(m.values())
SumValues(m) == SumOver(m, DOMAIN m)

----------------------------------------------------------------------------
(* Bounds and input domains.                                                *)

MaxHoldings == 2

HoldingSymbols == {"D05.SI", "AAPL"}
Currencies == {"SGD", "HKD", "USD"}
ShareCounts == {50, 100}

\* Price snapshots as _get_prices_local builds them: a price (which may be 0) or
\* None per symbol.
PriceSnapshots ==
    { [s \in HoldingSymbols |-> R(10)],
      [s \in HoldingSymbols |-> IF s = "D05.SI" THEN R(10) ELSE R(20)],
      [s \in HoldingSymbols |-> IF s = "D05.SI" THEN None ELSE R(20)],
      [s \in HoldingSymbols |-> None],
      [s \in HoldingSymbols |-> Zero],
      [s \in HoldingSymbols |-> IF s = "D05.SI" THEN Zero ELSE R(20)] }

\* Rate tables: the one _get_fx_rates builds from its fallbacks, and a caller's
\* table that has no USD entry and an SGD entry different from 1.
RateTables ==
    { [c \in {"HKD", "USD", "SGD"} |->
          IF c = "HKD" THEN <<173, 1000>> ELSE IF c = "USD" THEN <<27, 20>> ELSE One],
      [c \in {"HKD", "SGD"} |-> IF c = "HKD" THEN <<1, 5>> ELSE R(2)] }

\* Sector maps: a label, a missing entry, an empty label.
SectorMaps ==
    { [s \in HoldingSymbols |-> IF s = "D05.SI" THEN "Financials" ELSE "Technology"],
      [s \in HoldingSymbols |-> "Technology"],
      [s \in {"D05.SI"} |-> ""] }

NoCall == [op |-> "none"]
NoArgs == [none |-> TRUE]

----------------------------------------------------------------------------
(* PortfolioMetrics: FX helper and valuation.                               *)

\* Mutant: the reporting currency is looked up in the table like any other.
get_sgd_price_looked_up(local_price, currency, rates) ==
    RMul(local_price, Get(rates, currency, One))

get_sgd_price(local_price, currency, rates) ==
    IF currency = "SGD" THEN local_price
    ELSE RMul(local_price, Get(rates, currency, One))

\* value of one holding record: h["shares"] * get_sgd_price(price, h["currency"], rates)
ValueSgd(h, prices, rates) ==
    RMul(R(h.shares), get_sgd_price(prices[h.symbol], h.currency, rates))

\* prices_local.get(sym)
PriceOf(prices, sym) == Get(prices, sym, None)

RECURSIVE ValueLoop(_, _, _, _, _)
ValueLoop(hs, prices, rates, i, total) ==
    IF i > Len(hs) THEN total
    ELSE IF PriceOf(prices, hs[i].symbol) = None
         THEN ValueLoop(hs, prices, rates, i + 1, total)
         ELSE ValueLoop(hs, prices, rates, i + 1,
                        RAdd(total, ValueSgd(hs[i], prices, rates)))

get_portfolio_value_sgd(hs, prices, rates) == ValueLoop(hs, prices, rates, 1, Zero)

----------------------------------------------------------------------------
(* PortfolioMetrics: weights and allocation.                                *)

RECURSIVE WeightsLoop(_, _, _, _, _, _)
WeightsLoop(hs, prices, rates, total, i, weights) ==
    IF i > Len(hs) THEN weights
    ELSE IF PriceOf(prices, hs[i].symbol) = None
         THEN WeightsLoop(hs, prices, rates, total, i + 1, weights)
         ELSE WeightsLoop(hs, prices, rates, total, i + 1,
                          Put(weights, hs[i].symbol,
                              RDiv(ValueSgd(hs[i], prices, rates), total)))

\* Mutant: an unpriced holding is given weight 0 instead of being skipped.
RECURSIVE WeightsLoopZeroed(_, _, _, _, _, _)
WeightsLoopZeroed(hs, prices, rates, total, i, weights) ==
    IF i > Len(hs) THEN weights
    ELSE IF PriceOf(prices, hs[i].symbol) = None
         THEN WeightsLoopZeroed(hs, prices, rates, total, i + 1,
                                Put(weights, hs[i].symbol, Zero))
         ELSE WeightsLoopZeroed(hs, prices, rates, total, i + 1,
                                Put(weights, hs[i].symbol,
                                    RDiv(ValueSgd(hs[i], prices, rates), total)))

get_weights_zeroed(hs, prices, rates) ==
    LET total == get_portfolio_value_sgd(hs, prices, rates)
    IN  IF total = Zero THEN EmptyMap
        ELSE WeightsLoopZeroed(hs, prices, rates, total, 1, EmptyMap)

\* Mutant: the total == 0 guard is missing.
get_weights_unguarded(hs, prices, rates) ==
    WeightsLoop(hs, prices, rates, get_portfolio_value_sgd(hs, prices, rates),
                1, EmptyMap)

get_weights(hs, prices, rates) ==
    LET total == get_portfolio_value_sgd(hs, prices, rates)
    IN  IF total = Zero THEN EmptyMap
        ELSE WeightsLoop(hs, prices, rates, total, 1, EmptyMap)

RegionOf(currency) ==
    IF currency = "SGD" THEN "SG"
    ELSE IF currency = "HKD" THEN "HK"
    ELSE "US"

\* sector_map.get(sym) or "Unknown": a missing and an empty label are both falsy.
SectorOf(sectors, sym) ==
    IF Get(sectors, sym, "") = "" THEN "Unknown" ELSE sectors[sym]

\* The grouping loop shared by the two allocation functions: group_values[g] =
\* group_values.get(g, 0.0) + value_sgd over the priced holdings; groups[i] is
\* the group of the i-th holding.
\* Mutant: a record's value replaces what its group has so far.
RECURSIVE GroupLoopOverwriting(_, _, _, _, _, _)
GroupLoopOverwriting(hs, prices, rates, groups, i, group_values) ==
    IF i > Len(hs) THEN group_values
    ELSE IF PriceOf(prices, hs[i].symbol) = None
         THEN GroupLoopOverwriting(hs, prices, rates, groups, i + 1, group_values)
         ELSE GroupLoopOverwriting(hs, prices, rates, groups, i + 1,
                                   Put(group_values, groups[i],
                                       ValueSgd(hs[i], prices, rates)))

RECURSIVE GroupLoop(_, _, _, _, _, _)
GroupLoop(hs, prices, rates, groups, i, group_values) ==
    IF i > Len(hs) THEN group_values
    ELSE IF PriceOf(prices, hs[i].symbol) = None
         THEN GroupLoop(hs, prices, rates, groups, i + 1, group_values)
         ELSE GroupLoop(hs, prices, rates, groups, i + 1,
                        Put(group_values, groups[i],
                            RAdd(Get(group_values, groups[i], Zero),
                                 ValueSgd(hs[i], prices, rates))))

\* {g: val / total * 100 for g, val in group_values.items()}
Percentages(group_values, total) ==
    [g \in DOMAIN group_values |-> RMul(RDiv(group_values[g], total), R(100))]

get_region_allocation(hs, prices, rates) ==
    LET total == get_portfolio_value_sgd(hs, prices, rates)
        regions == [i \in 1..Len(hs) |-> RegionOf(hs[i].currency)]
    IN  IF total = Zero THEN EmptyMap
        ELSE Percentages(GroupLoop(hs, prices, rates, regions, 1, EmptyMap), total)

get_sector_allocation(hs, prices, rates, sectors) ==
    LET total == get_portfolio_value_sgd(hs, prices, rates)
        labels == [i \in 1..Len(hs) |-> SectorOf(sectors, hs[i].symbol)]
    IN  IF total = Zero THEN EmptyMap
        ELSE Percentages(GroupLoop(hs, prices, rates, labels, 1, EmptyMap), total)

----------------------------------------------------------------------------
(* The holdings page and the calls the pages make on each render.           *)

\* company is the symbol, the form's default when the name is left blank
Holding(sym, shares, currency) ==
    [symbol |-> sym, company |-> sym, shares |-> shares, currency |-> currency]

\* [h for h in holdings if h["symbol"] not in sel]
RECURSIVE Without(_, _)
Without(hs, sel) ==
    IF hs = << >> THEN << >>
    ELSE IF Head(hs).symbol \in sel THEN Without(Tail(hs), sel)
         ELSE <<Head(hs)>> \o Without(Tail(hs), sel)

Init ==
    /\ holdings = << >>
    /\ prices_local \in PriceSnapshots
    /\ fx_rates \in RateTables
    /\ sector_map \in SectorMaps
    /\ args = NoArgs
    /\ call = NoCall
    /\ ret = None

\* "Add Holding": appended without a uniqueness check, then st.rerun().
AddHolding ==
    \E sym \in HoldingSymbols, shares \in ShareCounts, currency \in Currencies :
        /\ Len(holdings) < MaxHoldings
        /\ holdings' = Append(holdings, Holding(sym, shares, currency))
        /\ call' = NoCall
        /\ ret' = None
        /\ UNCHANGED <<prices_local, fx_rates, sector_map, args>>

\* "Remove selected", then st.rerun().
RemoveSelected ==
    \E sel \in SUBSET {holdings[i].symbol : i \in 1..Len(holdings)} :
        /\ sel # {}
        /\ holdings' = Without(holdings, sel)
        /\ call' = NoCall
        /\ ret' = None
        /\ UNCHANGED <<prices_local, fx_rates, sector_map, args>>

CallGetPortfolioValueSgd ==
    /\ call' = [op |-> "get_portfolio_value_sgd"]
    /\ ret' = get_portfolio_value_sgd(holdings, prices_local, fx_rates)
    /\ UNCHANGED <<holdings, prices_local, fx_rates, sector_map, args>>

CallGetWeights ==
    /\ call' = [op |-> "get_weights"]
    /\ ret' = get_weights(holdings, prices_local, fx_rates)
    /\ UNCHANGED <<holdings, prices_local, fx_rates, sector_map, args>>

CallGetRegionAllocation ==
    /\ call' = [op |-> "get_region_allocation"]
    /\ ret' = get_region_allocation(holdings, prices_local, fx_rates)
    /\ UNCHANGED <<holdings, prices_local, fx_rates, sector_map, args>>

CallGetSectorAllocation ==
    /\ call' = [op |-> "get_sector_allocation"]
    /\ ret' = get_sector_allocation(holdings, prices_local, fx_rates, sector_map)
    /\ UNCHANGED <<holdings, prices_local, fx_rates, sector_map, args>>

Next ==
    \/ AddHolding
    \/ RemoveSelected
    \/ CallGetPortfolioValueSgd
    \/ CallGetWeights
    \/ CallGetRegionAllocation
    \/ CallGetSectorAllocation

Spec == Init /\ [][Next]_vars

----------------------------------------------------------------------------
(* PortfolioMetrics.get_rebalancing_actions.                                *)

\* The symbols in the order sorted() gives them.
SymbolOrder == <<"0700.HK", "AAPL", "D05.SI">>

\* Mutant: the deadband includes its boundary (abs(delta_pct) <= 1.0).
ActionOfInclusive(delta_pct) ==
    IF RLe(RAbs(delta_pct), One) THEN "Hold"
    ELSE IF RLt(Zero, delta_pct) THEN "Buy"
    ELSE "Sell"

\* Mutant: Buy and Sell are exchanged.
ActionOfSwapped(delta_pct) ==
    IF RLt(RAbs(delta_pct), One) THEN "Hold"
    ELSE IF RLt(Zero, delta_pct) THEN "Sell"
    ELSE "Buy"

ActionOf(delta_pct) ==
    IF RLt(RAbs(delta_pct), One) THEN "Hold"
    ELSE IF RLt(Zero, delta_pct) THEN "Buy"
    ELSE "Sell"

\* {h["symbol"]: h["company"] for h in holdings}: the last record of a symbol wins
RECURSIVE CompanyMap(_, _, _)
CompanyMap(hs, i, m) ==
    IF i > Len(hs) THEN m
    ELSE CompanyMap(hs, i + 1, Put(m, hs[i].symbol, hs[i].company))

\* Mutant: the change is taken from the target to the current weight.
RebalancingRecordFlipped(sym, current_weights, company_map, suggested_weights, total_sgd) ==
    LET current_pct == RMul(Get(current_weights, sym, Zero), R(100))
        suggested_pct == RMul(Get(suggested_weights, sym, Zero), R(100))
        delta_pct == RSub(current_pct, suggested_pct)
        delta_sgd == RMul(RDiv(delta_pct, R(100)), total_sgd)
    IN  [symbol |-> sym,
         company |-> Get(company_map, sym, sym),
         current_pct |-> current_pct,
         suggested_pct |-> suggested_pct,
         delta_pct |-> delta_pct,
         delta_sgd |-> delta_sgd,
         action |-> ActionOf(delta_pct)]

RebalancingRecord(sym, current_weights, company_map, suggested_weights, total_sgd) ==
    LET current_pct == RMul(Get(current_weights, sym, Zero), R(100))
        suggested_pct == RMul(Get(suggested_weights, sym, Zero), R(100))
        delta_pct == RSub(suggested_pct, current_pct)
        delta_sgd == RMul(RDiv(delta_pct, R(100)), total_sgd)
    IN  [symbol |-> sym,
         company |-> Get(company_map, sym, sym),
         current_pct |-> current_pct,
         suggested_pct |-> suggested_pct,
         delta_pct |-> delta_pct,
         delta_sgd |-> delta_sgd,
         action |-> ActionOf(delta_pct)]

\* every symbol held, priced or not
RECURSIVE HeldSymbols(_, _)
HeldSymbols(hs, i) ==
    IF i > Len(hs) THEN {} ELSE {hs[i].symbol} \cup HeldSymbols(hs, i + 1)

\* Mutant: the records cover every holding, not only those with a current weight.
get_rebalancing_actions_all_held(hs, prices, rates, suggested_weights, total_sgd) ==
    LET current_weights == get_weights(hs, prices, rates)
        company_map == CompanyMap(hs, 1, EmptyMap)
        all_symbols == HeldSymbols(hs, 1) \cup (DOMAIN suggested_weights)
        Wanted(sym) == sym \in all_symbols
        sorted == SelectSeq(SymbolOrder, Wanted)
    IN  [k \in 1..Len(sorted) |->
            RebalancingRecord(sorted[k], current_weights, company_map,
                              suggested_weights, total_sgd)]

get_rebalancing_actions(hs, prices, rates, suggested_weights, total_sgd) ==
    LET current_weights == get_weights(hs, prices, rates)
        company_map == CompanyMap(hs, 1, EmptyMap)
        all_symbols == (DOMAIN current_weights) \cup (DOMAIN suggested_weights)
        Wanted(sym) == sym \in all_symbols
        sorted == SelectSeq(SymbolOrder, Wanted)
    IN  [k \in 1..Len(sorted) |->
            RebalancingRecord(sorted[k], current_weights, company_map,
                              suggested_weights, total_sgd)]

----------------------------------------------------------------------------
(* Claims about valuation, weights and allocation (checked under Spec).     *)

Priced(h) == PriceOf(prices_local, h.symbol) # None

PricedIndices == {i \in 1..Len(holdings) : Priced(holdings[i])}

TotalValue == get_portfolio_value_sgd(holdings, prices_local, fx_rates)

\* the holdings list with every unpriced holding removed
PricedOnly == SelectSeq(holdings, Priced)

\* C1: for a non-empty holdings list in which every holding's symbol has a known
\* price, the values of the mapping returned by get_weights sum to 1.  The case
\* of a zero total, for which get_weights is specified to return {}, is left
\* out of the statement, so that what is refuted is the sum over a priced
\* portfolio of positive value.
C1_WeightsSumToOne ==
    (call.op = "get_weights" /\ holdings # << >>
        /\ PricedIndices = 1..Len(holdings) /\ TotalValue # Zero)
    => SumValues(ret) = One

\* sum over the priced holdings of shares x converted price, as a sum over the
\* set of their positions
RECURSIVE SumValueSgd(_)
SumValueSgd(idx) ==
    IF idx = {} THEN Zero
    ELSE LET i == CHOOSE x \in idx : TRUE
         IN  RAdd(ValueSgd(holdings[i], prices_local, fx_rates),
                  SumValueSgd(idx \ {i}))

ScenarioA ==
    /\ holdings = <<Holding("D05.SI", 100, "SGD"), Holding("AAPL", 50, "USD")>>
    /\ prices_local["D05.SI"] = R(10)
    /\ prices_local["AAPL"] = R(20)
    /\ Get(fx_rates, "USD", None) = <<27, 20>>

\* C2: get_portfolio_value_sgd returns the sum over the priced holdings of
\* shares x converted price, and get_weights gives each priced holding its
\* converted value divided by that total (where the total is not 0); in
\* scenario A the total is 2350 and the weights are 1000/2350 and 1350/2350.
C2_ValueAndWeights ==
    /\ call.op = "get_portfolio_value_sgd" => ret = SumValueSgd(PricedIndices)
    /\ (call.op = "get_portfolio_value_sgd" /\ ScenarioA) => ret = R(2350)
    /\ (call.op = "get_weights" /\ TotalValue # Zero) =>
           \A i \in PricedIndices :
               /\ holdings[i].symbol \in DOMAIN ret
               /\ ret[holdings[i].symbol] =
                      RDiv(ValueSgd(holdings[i], prices_local, fx_rates), TotalValue)
    /\ (call.op = "get_weights" /\ ScenarioA) =>
           ret = [s \in {"D05.SI", "AAPL"} |->
                      IF s = "D05.SI" THEN RDiv(R(1000), R(2350))
                      ELSE RDiv(R(1350), R(2350))]

\* The value formula and scenario A alone, which hold whether or not a symbol
\* is repeated in the holdings list.
C2_ValueAndScenario ==
    /\ call.op = "get_portfolio_value_sgd" => ret = SumValueSgd(PricedIndices)
    /\ (call.op = "get_portfolio_value_sgd" /\ ScenarioA) => ret = R(2350)
    /\ (call.op = "get_weights" /\ ScenarioA) =>
           ret = [s \in {"D05.SI", "AAPL"} |->
                      IF s = "D05.SI" THEN <<20, 47>> ELSE <<27, 47>>]

\* C3: a holding without a price is skipped: each of the four functions returns
\* what it returns on the holdings list with every unpriced holding removed.
C3_UnpricedSkipped ==
    /\ call.op = "get_portfolio_value_sgd" =>
           ret = get_portfolio_value_sgd(PricedOnly, prices_local, fx_rates)
    /\ call.op = "get_weights" =>
           ret = get_weights(PricedOnly, prices_local, fx_rates)
    /\ call.op = "get_region_allocation" =>
           ret = get_region_allocation(PricedOnly, prices_local, fx_rates)
    /\ call.op = "get_sector_allocation" =>
           ret = get_sector_allocation(PricedOnly, prices_local, fx_rates, sector_map)

\* get_weights has run on a list holding a priced and an unpriced holding.
C3_Witness ==
    /\ call.op = "get_weights"
    /\ PricedIndices # {}
    /\ PricedIndices # 1..Len(holdings)
    /\ ret # EmptyMap

\* C4: when the total value of the priced holdings is 0, get_weights,
\* get_region_allocation and get_sector_allocation return the empty mapping;
\* no division by the total takes place.
C4_ZeroTotalEmpty ==
    (call.op \in {"get_weights", "get_region_allocation", "get_sector_allocation"}
        /\ TotalValue = Zero)
    => ret = EmptyMap

\* get_weights has run on priced holdings whose values are all zero.
C4_Witness ==
    /\ call.op = "get_weights"
    /\ PricedIndices # {}
    /\ TotalValue = Zero
    /\ ret = EmptyMap

----------------------------------------------------------------------------
(* PortfolioMetrics.suggest_weights.                                        *)

MaxIterations == 100

\* 1e-9 is 1 / SurplusEpsInv (surplus test) and 1 / CapEpsInv (below-cap test)
SurplusEpsInv == 1000000000
CapEpsInv == 1000000000

ToSet(seq) == {seq[i] : i \in 1..Len(seq)}

\* [c for c in candidates if scores.get(c, 0) > 0], as the set of its members
Valid(candidates, scores) ==
    {c \in ToSet(candidates) : Get(scores, c, 0) > 0}

\* Mutant: the weights are left as they are.
Unnormalised(weights) == weights

\* {c: v / total for c, v in weights.items()} with total = sum(weights.values())
Normalised(weights) ==
    LET total == SumValues(weights)
    IN  [c \in DOMAIN weights |-> RDiv(weights[c], total)]

\* Mutant: nothing is capped.
Uncut(weights, cap) == weights

\* {c: min(w, cap) for c, w in weights.items()}
Capped(weights, cap) == [c \in DOMAIN weights |-> RMin(weights[c], cap)]

\* sum(w - cap for c, w in weights.items() if w > cap)
Surplus(weights, cap) ==
    LET over == {c \in DOMAIN weights : RLt(cap, weights[c])}
    IN  SumValues([c \in over |-> RSub(weights[c], cap)])

\* the keys of {c: w for c, w in capped.items() if w < cap - 1e-9}
Uncapped(capped, cap) ==
    {c \in DOMAIN capped : RGtInv(RSub(cap, capped[c]), CapEpsInv)}

\* Mutant: the surplus is split equally among the entries below the cap.
RedistributedEqually(capped, uncapped, surplus) ==
    [c \in DOMAIN capped |->
        IF c \in uncapped
        THEN RAdd(capped[c], RDiv(surplus, R(Cardinality(uncapped))))
        ELSE capped[c]]

\* for c in uncapped: capped[c] += surplus * (capped[c] / uncapped_total)
Redistributed(capped, uncapped, surplus) ==
    LET uncapped_total == SumOver(capped, uncapped)
    IN  [c \in DOMAIN capped |->
            IF c \in uncapped
            THEN RAdd(capped[c], RMul(surplus, RDiv(capped[c], uncapped_total)))
            ELSE capped[c]]

\* Mutant: the iteration bound is one redistribution.
RECURSIVE SolverLoopShort(_, _, _)
SolverLoopShort(weights, cap, trace) ==
    IF Len(trace) - 1 = 1
    THEN [weights |-> weights, exit |-> "exhausted", trace |-> trace]
    ELSE LET capped == Capped(weights, cap)
             surplus == Surplus(weights, cap)
             uncapped == Uncapped(capped, cap)
         IN  IF RLtInv(surplus, SurplusEpsInv)
             THEN [weights |-> weights, exit |-> "converged", trace |-> trace]
             ELSE IF uncapped = {}
             THEN [weights |-> weights, exit |-> "saturated", trace |-> trace]
             ELSE LET next == Redistributed(capped, uncapped, surplus)
                  IN  SolverLoopShort(next, cap, Append(trace, next))

\* The for loop: the weights after each pass that redistributed, and the way
\* the loop was left ("converged": surplus < 1e-9, "saturated": no entry below
\* the cap, "exhausted": range(100) ran out).
RECURSIVE SolverLoop(_, _, _)
SolverLoop(weights, cap, trace) ==
    IF Len(trace) - 1 = MaxIterations
    THEN [weights |-> weights, exit |-> "exhausted", trace |-> trace]
    ELSE LET capped == Capped(weights, cap)
             surplus == Surplus(weights, cap)
             uncapped == Uncapped(capped, cap)
         IN  IF RLtInv(surplus, SurplusEpsInv)
             THEN [weights |-> weights, exit |-> "converged", trace |-> trace]
             ELSE IF uncapped = {}
             THEN [weights |-> weights, exit |-> "saturated", trace |-> trace]
             ELSE LET next == Redistributed(capped, uncapped, surplus)
                  IN  SolverLoop(next, cap, Append(trace, next))

\* the raw weights and the loop's outcome, for a list with a positive score
Solve(candidates, scores, cap) ==
    LET valid == Valid(candidates, scores)
        raw == Normalised([c \in valid |-> R(scores[c])])
    IN  SolverLoop(raw, cap, <<raw>>)

\* Mutant: the fallback leaves the candidates without a weight.
NoFallback(candidates) == EmptyMap

\* {c: 1.0 / n for c in candidates} if n > 0 else {}
EqualWeights(candidates) ==
    LET n == Len(candidates)
    IN  IF n > 0 THEN [c \in ToSet(candidates) |-> RDiv(One, R(n))] ELSE EmptyMap

\* Mutant: the excluded candidates are not added back.
NotAddedBack(weights, candidates) == weights

\* for c in candidates: if c not in weights: weights[c] = 0.0
AddedBack(weights, candidates) ==
    [c \in (DOMAIN weights) \cup ToSet(candidates) |->
        IF c \in DOMAIN weights THEN weights[c] ELSE Zero]

\* if total > 0: weights = {c: v / total ...}
FinalNormalised(weights) ==
    IF RLt(Zero, SumValues(weights)) THEN Normalised(weights) ELSE weights

suggest_weights(candidates, scores, cap) ==
    IF Valid(candidates, scores) = {} THEN EqualWeights(candidates)
    ELSE AddedBack(FinalNormalised(Solve(candidates, scores, cap).weights),
                   candidates)

----------------------------------------------------------------------------
(* suggest_weights as a pure function of its arguments (SolverSpec).        *)

MaxCandidates == 3

CandidateSymbols == {"D05.SI", "AAPL", "0700.HK"}
ScoreValues == {-5, 0, 10, 30, 60}
Caps == {<<1, 4>>, <<1, 3>>, <<2, 5>>, <<1, 2>>, One}

\* candidate lists, repeated symbols included
CandidateLists == UNION {[1..n -> CandidateSymbols] : n \in 0..MaxCandidates}

\* score maps; a symbol may have no entry
ScoreMaps == UNION {[D -> ScoreValues] : D \in SUBSET CandidateSymbols}

SolverInit ==
    /\ holdings = << >>
    /\ prices_local = EmptyMap
    /\ fx_rates = EmptyMap
    /\ sector_map = EmptyMap
    /\ args \in [candidates : CandidateLists, scores : ScoreMaps, cap : Caps]
    /\ call = NoCall
    /\ ret = None

\* Mutant: the clamped scores of line 149 are written back into the caller's
\* score map.
CallSuggestWeightsInPlace ==
    /\ call = NoCall
    /\ call' = [op |-> "suggest_weights"]
    /\ ret' = suggest_weights(args.candidates, args.scores, args.cap)
    /\ args' = [args EXCEPT !.scores =
                   [c \in DOMAIN args.scores |->
                       IF args.scores[c] > 0 THEN args.scores[c] ELSE 0]]
    /\ UNCHANGED <<holdings, prices_local, fx_rates, sector_map>>

CallSuggestWeights ==
    /\ call = NoCall
    /\ call' = [op |-> "suggest_weights"]
    /\ ret' = suggest_weights(args.candidates, args.scores, args.cap)
    /\ UNCHANGED <<holdings, prices_local, fx_rates, sector_map, args>>

SolverNext == CallSuggestWeights

SolverSpec == SolverInit /\ [][SolverNext]_vars

----------------------------------------------------------------------------
(* Claims about suggest_weights (checked under SolverSpec).                 *)

Suggested == call.op = "suggest_weights"

ValidArgs == Valid(args.candidates, args.scores)

Distinct(seq) == Cardinality(ToSet(seq)) = Len(seq)

\* the loop's outcome for the call's arguments
Solved == Solve(args.candidates, args.scores, args.cap)

\* C5: when at least ceil(1/cap) candidates have a strictly positive score
\* (cap x count >= 1), every returned weight is at most cap + 1e-6.  The
\* candidate lists of SolverSpec are far shorter than MaxIterations, so the
\* loop is never left because range(100) ran out.
C5_CapRespected ==
    (Suggested /\ RLe(One, RMul(R(Cardinality(ValidArgs)), args.cap)))
    => \A c \in DOMAIN ret : RLeInv(RSub(ret[c], args.cap), 1000000)

\* the cap was feasible and it cut a raw weight
C5_Witness ==
    /\ Suggested
    /\ RLe(One, RMul(R(Cardinality(ValidArgs)), args.cap))
    /\ \E c \in ValidArgs : RLt(args.cap, Solved.trace[1][c])
    /\ Len(Solved.trace) > 2

\* C6: for a non-empty list of distinct candidates the returned weights sum to
\* 1, with a positive score present and in the equal-weight fallback.
C6_SumToOne ==
    (Suggested /\ args.candidates # << >> /\ Distinct(args.candidates))
    => SumValues(ret) = One

\* distinct candidates, a positive score, and weights that were redistributed
C6_Witness ==
    /\ Suggested
    /\ Distinct(args.candidates)
    /\ ValidArgs # {}
    /\ Len(Solved.trace) > 1
    /\ SumValues(ret) = One

\* C7: the key set of the result is the candidate set, and when some candidate
\* has a positive score every candidate whose score is missing, zero or
\* negative has weight exactly 0.
C7_CoversCandidates ==
    Suggested =>
        /\ DOMAIN ret = ToSet(args.candidates)
        /\ ValidArgs # {} =>
               \A c \in ToSet(args.candidates) \ ValidArgs : ret[c] = Zero

\* a positive score next to a candidate without a score and one scored <= 0
C7_Witness ==
    /\ Suggested
    /\ ValidArgs # {}
    /\ \E c \in ToSet(args.candidates) : c \notin DOMAIN args.scores
    /\ \E c \in ToSet(args.candidates) :
           c \in DOMAIN args.scores /\ args.scores[c] <= 0

\* C8: with no strictly positive score the result is 1/N for each of the N
\* candidates, and the empty mapping when N = 0.
C8_EqualWeightFallback ==
    (Suggested /\ ValidArgs = {}) =>
        /\ DOMAIN ret = ToSet(args.candidates)
        /\ \A c \in ToSet(args.candidates) :
               ret[c] = RDiv(One, R(Len(args.candidates)))
        /\ args.candidates = << >> => ret = EmptyMap

\* the fallback was taken for several candidates
C8_Witness ==
    /\ Suggested
    /\ ValidArgs = {}
    /\ Cardinality(ToSet(args.candidates)) >= 2
    /\ \A c \in ToSet(args.candidates) : ret[c] = RDiv(One, R(Len(args.candidates)))

\* One redistribution step from w to w2 as the claim words it: entries above
\* the cap become the cap, entries strictly below it receive the surplus in
\* proportion to their weights, entries at the cap stay.
StepAsClaimed(w, w2, cap) ==
    LET above == {c \in DOMAIN w : RLt(cap, w[c])}
        below == {c \in DOMAIN w : RLt(w[c], cap)}
        surplus == SumValues([c \in above |-> RSub(w[c], cap)])
        below_total == SumOver(w, below)
    IN  /\ DOMAIN w2 = DOMAIN w
        /\ \A c \in above : w2[c] = cap
        /\ \A c \in below :
               RSub(w2[c], w[c]) = RDiv(RMul(surplus, w[c]), below_total)
        /\ \A c \in DOMAIN w \ (above \cup below) : w2[c] = w[c]

ScenarioB ==
    /\ ToSet(args.candidates) = {"D05.SI", "AAPL", "0700.HK"}
    /\ Len(args.candidates) = 3
    /\ args.scores = [c \in CandidateSymbols |->
                         IF c = "D05.SI" THEN 60 ELSE IF c = "AAPL" THEN 30 ELSE 10]
    /\ args.cap = <<1, 2>>

\* C9: every redistribution step sets the entries above the cap to the cap and
\* adds the surplus to the entries below the cap in proportion to their
\* weights; scores 60, 30, 10 with cap 0.5 give 0.5, 0.375, 0.125.
C9_ProportionalRedistribution ==
    /\ (Suggested /\ ValidArgs # {}) =>
           \A k \in 1..(Len(Solved.trace) - 1) :
               StepAsClaimed(Solved.trace[k], Solved.trace[k + 1], args.cap)
    /\ (Suggested /\ ScenarioB) =>
           ret = [c \in CandidateSymbols |->
                     IF c = "D05.SI" THEN <<1, 2>>
                     ELSE IF c = "AAPL" THEN <<3, 8>> ELSE <<1, 8>>]

\* scenario B was solved, with one redistribution
C9_Witness ==
    /\ Suggested
    /\ ScenarioB
    /\ Len(Solved.trace) = 2
    /\ ret["AAPL"] = <<3, 8>>

----------------------------------------------------------------------------
(* get_rebalancing_actions as a pure function of its arguments (RebalSpec). *)

RebalPortfolios ==
    { << >>,
      <<Holding("D05.SI", 100, "SGD")>>,
      <<Holding("D05.SI", 100, "SGD"), Holding("AAPL", 100, "SGD")>>,
      <<Holding("D05.SI", 30, "SGD"), Holding("AAPL", 70, "SGD")>>,
      <<Holding("D05.SI", 50, "SGD"), Holding("AAPL", 50, "USD")>> }

TargetWeights ==
    { Zero, <<999, 100000>>, <<1, 5>>, <<49, 100>>, <<49001, 100000>>,
      <<1, 2>>, <<50999, 100000>>, <<51, 100>> }

\* target weight maps; a symbol may have no entry
TargetMaps == UNION {[D -> TargetWeights] : D \in SUBSET CandidateSymbols}

RebalInit ==
    /\ holdings \in RebalPortfolios
    /\ prices_local \in PriceSnapshots
    /\ fx_rates \in RateTables
    /\ sector_map = EmptyMap
    /\ args \in [suggested_weights : TargetMaps,
                 total_sgd : {Zero, R(10000),
                              get_portfolio_value_sgd(holdings, prices_local, fx_rates)}]
    /\ call = NoCall
    /\ ret = None

CallGetRebalancingActions ==
    /\ call = NoCall
    /\ call' = [op |-> "get_rebalancing_actions"]
    /\ ret' = get_rebalancing_actions(holdings, prices_local, fx_rates,
                                      args.suggested_weights, args.total_sgd)
    /\ UNCHANGED <<holdings, prices_local, fx_rates, sector_map, args>>

RebalNext == CallGetRebalancingActions

RebalSpec == RebalInit /\ [][RebalNext]_vars

----------------------------------------------------------------------------
(* Claims about get_rebalancing_actions (checked under RebalSpec).          *)

Rebalanced == call.op = "get_rebalancing_actions"

\* C10: a record is Hold exactly when |delta_pct| < 1, Buy exactly when
\* delta_pct >= 1 and Sell exactly when delta_pct <= -1; delta_pct = 1 is Buy,
\* delta_pct = -1 is Sell and delta_pct = 0.999 is Hold.
C10_Deadband ==
    Rebalanced =>
        \A k \in 1..Len(ret) :
            LET d == ret[k].delta_pct
                a == ret[k].action
            IN  /\ a = "Hold" <=> (RLt(R(-1), d) /\ RLt(d, One))
                /\ a = "Buy" <=> RLe(One, d)
                /\ a = "Sell" <=> RLe(d, R(-1))
                /\ d = One => a = "Buy"
                /\ d = R(-1) => a = "Sell"
                /\ d = <<999, 1000>> => a = "Hold"

\* one call produced a record at each of the three boundary values
C10_Witness ==
    /\ Rebalanced
    /\ \E k \in 1..Len(ret) : ret[k].delta_pct = One /\ ret[k].action = "Buy"
    /\ \E k \in 1..Len(ret) : ret[k].delta_pct = R(-1) /\ ret[k].action = "Sell"
    /\ \E k \in 1..Len(ret) : ret[k].delta_pct = <<999, 1000>> /\ ret[k].action = "Hold"

\* Scenario C: current weight 0.30, target weight 0.20, total 10,000
ScenarioC ==
    /\ holdings = <<Holding("D05.SI", 30, "SGD"), Holding("AAPL", 70, "SGD")>>
    /\ prices_local = [s \in HoldingSymbols |-> R(10)]
    /\ "D05.SI" \in DOMAIN args.suggested_weights
    /\ args.suggested_weights["D05.SI"] = <<1, 5>>
    /\ args.total_sgd = R(10000)

\* C11: in every record current_pct is the symbol's current weight times 100
\* (0 without one), suggested_pct its target weight times 100 (0 without one),
\* delta_pct = suggested_pct - current_pct and delta_sgd = delta_pct / 100 *
\* total_sgd; current 0.30, target 0.20 and total 10,000 give delta_pct -10,
\* Sell and delta_sgd -1000.
C11_RecordFields ==
    Rebalanced =>
        LET current_weights == get_weights(holdings, prices_local, fx_rates)
        IN  /\ \A k \in 1..Len(ret) :
                  LET r == ret[k]
                  IN  /\ r.current_pct =
                            (IF r.symbol \in DOMAIN current_weights
                             THEN RMul(current_weights[r.symbol], R(100)) ELSE Zero)
                      /\ r.suggested_pct =
                            (IF r.symbol \in DOMAIN args.suggested_weights
                             THEN RMul(args.suggested_weights[r.symbol], R(100))
                             ELSE Zero)
                      /\ r.delta_pct = RSub(r.suggested_pct, r.current_pct)
                      /\ r.delta_sgd = RMul(RDiv(r.delta_pct, R(100)), args.total_sgd)
            /\ ScenarioC =>
                  \E k \in 1..Len(ret) :
                      /\ ret[k].symbol = "D05.SI"
                      /\ ret[k].current_pct = R(30)
                      /\ ret[k].suggested_pct = R(20)
                      /\ ret[k].delta_pct = R(-10)
                      /\ ret[k].action = "Sell"
                      /\ ret[k].delta_sgd = R(-1000)

\* Scenario C was rebalanced, with a symbol that has no current weight and one
\* that has no target in the same call
C11_Witness ==
    /\ Rebalanced
    /\ ScenarioC
    /\ "0700.HK" \in DOMAIN args.suggested_weights
    /\ "AAPL" \notin DOMAIN args.suggested_weights
    /\ \E k \in 1..Len(ret) : ret[k].symbol = "D05.SI" /\ ret[k].delta_sgd = R(-1000)
    /\ \E k \in 1..Len(ret) : ret[k].symbol = "AAPL" /\ ret[k].suggested_pct = Zero
    /\ \E k \in 1..Len(ret) : ret[k].symbol = "0700.HK" /\ ret[k].current_pct = Zero

\* C12: the result holds exactly one record for every symbol that has a current
\* weight or a target weight, and none for any other symbol; a holding without a
\* price that is not a target has no record.
C12_OneRecordPerSymbol ==
    Rebalanced =>
        LET all_symbols == (DOMAIN get_weights(holdings, prices_local, fx_rates))
                               \cup (DOMAIN args.suggested_weights)
        IN  /\ {ret[k].symbol : k \in 1..Len(ret)} = all_symbols
            /\ Len(ret) = Cardinality(all_symbols)
            /\ \A i \in 1..Len(holdings) :
                  (~Priced(holdings[i])
                       /\ holdings[i].symbol \notin DOMAIN args.suggested_weights
                       /\ \A j \in PricedIndices :
                              holdings[j].symbol # holdings[i].symbol)
                  => \A k \in 1..Len(ret) : ret[k].symbol # holdings[i].symbol

\* a holding without a price that is not a target was left out, next to a priced
\* holding and a target that is not held
C12_Witness ==
    /\ Rebalanced
    /\ Len(holdings) = 2
    /\ ~Priced(holdings[1])
    /\ Priced(holdings[2])
    /\ DOMAIN args.suggested_weights = {"0700.HK"}
    /\ Len(ret) = 2
    /\ \A k \in 1..Len(ret) : ret[k].symbol # holdings[1].symbol

----------------------------------------------------------------------------
(* get_sgd_price as a pure function of its arguments (ConvSpec).            *)

\* amounts: negative, zero, fractional and whole
Amounts ==
    { R(-5), Zero, <<1, 100>>, <<1, 2>>, One, <<27, 20>>, R(2), R(10), R(20),
      <<173, 10>>, R(100), R(1000), R(10000) }

\* the currencies of the holdings form, and one no table holds
ConvCurrencies == Currencies \cup {"EUR"}

\* the rate tables of the page, an empty table and one without SGD
ConvRateTables ==
    RateTables \cup { EmptyMap, [c \in {"USD"} |-> <<3, 2>>] }

ConvInit ==
    /\ holdings = << >>
    /\ prices_local = EmptyMap
    /\ fx_rates \in ConvRateTables
    /\ sector_map = EmptyMap
    /\ args \in [local_price : Amounts, currency : ConvCurrencies]
    /\ call = NoCall
    /\ ret = None

CallGetSgdPrice ==
    /\ call = NoCall
    /\ call' = [op |-> "get_sgd_price"]
    /\ ret' = get_sgd_price(args.local_price, args.currency, fx_rates)
    /\ UNCHANGED <<holdings, prices_local, fx_rates, sector_map, args>>

ConvNext == CallGetSgdPrice

ConvSpec == ConvInit /\ [][ConvNext]_vars

Converted == call.op = "get_sgd_price"

\* C13: get_sgd_price(x, "SGD", rates) returns x unchanged for every amount x
\* and every rate table, including a table whose "SGD" entry is not 1.0.
C13_ReportingCurrencyUnchanged ==
    (Converted /\ args.currency = "SGD") => ret = args.local_price

\* an SGD amount was converted under a table whose SGD entry is 2
C13_Witness ==
    /\ Converted
    /\ args.currency = "SGD"
    /\ "SGD" \in DOMAIN fx_rates
    /\ fx_rates["SGD"] = R(2)
    /\ args.local_price = R(10)
    /\ ret = R(10)

\* C14: the implicit rate 1.0 is applied to the reporting currency only: an
\* amount in another currency is multiplied by the rate the table stores for
\* it, and when the table stores none the result is not the amount times a
\* rate that the table does not contain.
C14_NoInventedRate ==
    (Converted /\ args.currency # "SGD") =>
        IF args.currency \in DOMAIN fx_rates
        THEN ret = RMul(args.local_price, fx_rates[args.currency])
        ELSE \E c \in DOMAIN fx_rates : ret = RMul(args.local_price, fx_rates[c])

----------------------------------------------------------------------------
(* pandas Series as the history functions use them: a function from the     *)
(* dates of its index, kept in increasing order, to a float or NaN.         *)

NaN == <<1, 0>>

\* float arithmetic of numpy: NaN propagates
NAdd(a, b) == IF a = NaN \/ b = NaN THEN NaN ELSE RAdd(a, b)
NMul(a, b) == IF a = NaN \/ b = NaN THEN NaN ELSE RMul(a, b)
NDiv(a, b) == IF a = NaN \/ b = NaN THEN NaN ELSE RDiv(a, b)

\* pd.Series(dtype=float)
EmptySeries == EmptyMap

\* Series.empty
empty(s) == DOMAIN s = {}

\* pd.Series(value, index=index)
ConstantSeries(value, index) == [t \in index |-> value]

\* Index.intersection over the series of a collection
RECURSIVE IntersectAll(_, _)
IntersectAll(series, index) ==
    IF series = {} THEN index
    ELSE LET s == CHOOSE x \in series : TRUE
         IN  IntersectAll(series \ {s}, index \cap DOMAIN s)

\* Series.reindex(index): a date the series does not have gets NaN
reindex(s, index) == [t \in index |-> IF t \in DOMAIN s THEN s[t] ELSE NaN]

Latest(dates) == CHOOSE t \in dates : \A u \in dates : u <= t
Earliest(dates) == CHOOSE t \in dates : \A u \in dates : t <= u

\* Mutant: gaps are filled from the next observation (bfill).
bfill(s) ==
    [t \in DOMAIN s |->
        LET later == {u \in DOMAIN s : t <= u /\ s[u] # NaN}
        IN  IF later = {} THEN NaN ELSE s[Earliest(later)]]

\* Series.ffill(): NaN is replaced by the last value before it
ffill(s) ==
    [t \in DOMAIN s |->
        LET prior == {u \in DOMAIN s : u <= t /\ s[u] # NaN}
        IN  IF prior = {} THEN NaN ELSE s[Latest(prior)]]

\* Series.fillna(value)
fillna(s, value) == [t \in DOMAIN s |-> IF s[t] = NaN THEN value ELSE s[t]]

\* Series.isna().all()
isna_all(s) == \A t \in DOMAIN s : s[t] = NaN

\* Series.iloc[0]
iloc0(s) == s[Earliest(DOMAIN s)]

\* scalar * series, series * series, series + series on one index
Scaled(x, s) == [t \in DOMAIN s |-> NMul(x, s[t])]
Times(a, b) == [t \in DOMAIN a |-> NMul(a[t], b[t])]
Plus(a, b) == [t \in DOMAIN a |-> NAdd(a[t], b[t])]

----------------------------------------------------------------------------
(* PortfolioMetrics.get_historical_value and get_hypothetical_value.        *)

\* the series fx of both functions (lines 279-286 and 348-355)
FxFactor(currency, fx_histories, common_index) ==
    IF currency = "SGD" THEN ConstantSeries(One, common_index)
    ELSE IF currency \in DOMAIN fx_histories /\ ~empty(fx_histories[currency])
         THEN fillna(ffill(reindex(fx_histories[currency], common_index)), One)
         ELSE ConstantSeries(One, common_index)

\* price_histories.get(sym) is a series that is not empty
Available(sym, price_histories) ==
    sym \in DOMAIN price_histories /\ ~empty(price_histories[sym])

\* the loop of lines 269-288
RECURSIVE HistoricalLoop(_, _, _, _, _, _)
HistoricalLoop(hs, price_histories, fx_histories, common_index, i, total) ==
    IF i > Len(hs) THEN total
    ELSE LET h == hs[i]
             hist_aligned == reindex(price_histories[h.symbol], common_index)
             fx == FxFactor(h.currency, fx_histories, common_index)
         IN  IF ~Available(h.symbol, price_histories) \/ isna_all(hist_aligned)
             THEN HistoricalLoop(hs, price_histories, fx_histories, common_index,
                                 i + 1, total)
             ELSE HistoricalLoop(hs, price_histories, fx_histories, common_index,
                                 i + 1,
                                 Plus(total, Times(Scaled(R(h.shares),
                                                          ffill(hist_aligned)), fx)))

\* Mutant: the index is the union of the available histories' dates.
get_historical_value_union(hs, price_histories, fx_histories) ==
    IF Len(hs) = 0 \/ DOMAIN price_histories = {} THEN EmptySeries
    ELSE LET all_series == {price_histories[hs[i].symbol] :
                                i \in {j \in 1..Len(hs) :
                                           Available(hs[j].symbol, price_histories)}}
         IN  IF all_series = {} THEN EmptySeries
             ELSE LET common_index == UNION {DOMAIN x : x \in all_series}
                  IN  IF common_index = {} THEN EmptySeries
                      ELSE HistoricalLoop(hs, price_histories, fx_histories,
                                          common_index, 1,
                                          ConstantSeries(Zero, common_index))

get_historical_value(hs, price_histories, fx_histories) ==
    IF Len(hs) = 0 \/ DOMAIN price_histories = {} THEN EmptySeries
    ELSE LET all_series == {price_histories[hs[i].symbol] :
                                i \in {j \in 1..Len(hs) :
                                           Available(hs[j].symbol, price_histories)}}
         IN  IF all_series = {} THEN EmptySeries
             ELSE LET first == CHOOSE x \in all_series : TRUE
                      common_index == IntersectAll(all_series, DOMAIN first)
                  IN  IF common_index = {} THEN EmptySeries
                      ELSE HistoricalLoop(hs, price_histories, fx_histories,
                                          common_index, 1,
                                          ConstantSeries(Zero, common_index))

\* Mutant: every symbol is taken to be quoted in USD.
_guess_currency_usd(sym) == "USD"

\* sym.endswith(".SI") / sym.endswith(".HK") on the symbols of the model
_guess_currency(sym) ==
    IF sym = "D05.SI" THEN "SGD"
    ELSE IF sym = "0700.HK" THEN "HKD"
    ELSE "USD"

\* the symbols of suggested_weights that are kept in relevant (lines 309-313)
Relevant(suggested_weights, price_histories) ==
    {sym \in DOMAIN suggested_weights :
        RLt(Zero, suggested_weights[sym]) /\ sym \in DOMAIN price_histories}

\* what one symbol adds to total (lines 341-364); None when it is skipped
Contribution(sym, suggested_weights, total_invested_sgd, price_histories, fx_histories, common_index) ==
    IF sym \notin Relevant(suggested_weights, price_histories) THEN None
    ELSE LET hist == ffill(reindex(price_histories[sym], common_index))
             fx == FxFactor(_guess_currency(sym), fx_histories, common_index)
             start_price_sgd == NMul(iloc0(hist), iloc0(fx))
             allocated_sgd == RMul(total_invested_sgd, suggested_weights[sym])
             shares == NDiv(allocated_sgd, start_price_sgd)
         IN  IF isna_all(hist) \/ iloc0(hist) = Zero THEN None
             ELSE IF start_price_sgd = Zero THEN None
             ELSE Times(Scaled(shares, hist), fx)

\* the loop of lines 340-364 over the symbols of suggested_weights
RECURSIVE HypotheticalLoop(_, _, _, _, _, _, _)
HypotheticalLoop(syms, suggested_weights, total_invested_sgd, price_histories, fx_histories, common_index, total) ==
    IF syms = {} THEN total
    ELSE LET sym == CHOOSE x \in syms : TRUE
             c == Contribution(sym, suggested_weights, total_invested_sgd,
                               price_histories, fx_histories, common_index)
         IN  HypotheticalLoop(syms \ {sym}, suggested_weights, total_invested_sgd,
                              price_histories, fx_histories, common_index,
                              IF sym \in Relevant(suggested_weights, price_histories)
                                     /\ c # None
                              THEN Plus(total, c) ELSE total)

get_hypothetical_value(suggested_weights, total_invested_sgd, price_histories, fx_histories, start_date) ==
    IF DOMAIN suggested_weights = {} \/ DOMAIN price_histories = {} THEN EmptySeries
    ELSE LET relevant == Relevant(suggested_weights, price_histories)
         IN  IF relevant = {} THEN EmptySeries
             ELSE LET first == CHOOSE sym \in relevant : TRUE
                      all_dates ==
                          IntersectAll({price_histories[sym] : sym \in relevant},
                                       DOMAIN price_histories[first])
                      common_index == {t \in all_dates : t >= start_date}
                  IN  IF all_dates = {} \/ common_index = {} THEN EmptySeries
                      ELSE HypotheticalLoop(DOMAIN suggested_weights,
                                            suggested_weights, total_invested_sgd,
                                            price_histories, fx_histories,
                                            common_index,
                                            ConstantSeries(Zero, common_index))

----------------------------------------------------------------------------
(* The history functions as pure functions of their arguments (HistSpec,    *)
(* HypoSpec).  Dates are day numbers.                                       *)

MaxDate == 3
Dates == 1..MaxDate

\* the close of a symbol on a day: D05.SI rises from 10, AAPL from 0
ObservedPrice(sym, t) == IF sym = "D05.SI" THEN R(10 * t) ELSE R(20 * (t - 1))

\* the SGD-per-USD rate of a day
ObservedRate(t) == RDiv(R(26 + t), R(20))

\* D05.SI histories: on each day no row, a row without a close, or a close
PriceSeriesWithGaps ==
    UNION { { [t \in index |-> IF t \in gaps THEN NaN ELSE ObservedPrice("D05.SI", t)] :
                gaps \in SUBSET index } : index \in SUBSET Dates }

\* AAPL histories: on each day no row or a close
PriceSeries ==
    { [t \in index |-> ObservedPrice("AAPL", t)] : index \in SUBSET Dates }

\* price_histories: a symbol may have no entry
PriceHistories ==
    { [sym \in {"D05.SI", "AAPL"} |-> IF sym = "D05.SI" THEN d ELSE a] :
          d \in PriceSeriesWithGaps, a \in PriceSeries }
    \cup { [sym \in {"D05.SI"} |-> d] : d \in PriceSeriesWithGaps }
    \cup { [sym \in {"AAPL"} |-> a] : a \in PriceSeries }
    \cup { EmptyMap }

\* fx_histories: no USD entry, or USD rates on some of the days
FxHistories ==
    { EmptyMap }
    \cup { [c \in {"USD"} |-> [t \in index |-> ObservedRate(t)]] :
               index \in SUBSET Dates }

\* Scenario D: two holdings with 10 dates each, of which 3 are shared
ScenarioDHistories ==
    [sym \in {"D05.SI", "AAPL"} |->
        IF sym = "D05.SI" THEN [t \in 1..10 |-> ObservedPrice(sym, t)]
        ELSE [t \in 8..17 |-> ObservedPrice(sym, t)]]

HistPortfolios ==
    { << >>,
      <<Holding("D05.SI", 100, "SGD"), Holding("AAPL", 50, "USD")>>,
      <<Holding("D05.SI", 100, "USD"), Holding("AAPL", 50, "HKD")>>,
      <<Holding("AAPL", 50, "USD")>> }

HistInit ==
    /\ holdings \in HistPortfolios
    /\ prices_local = EmptyMap
    /\ fx_rates = EmptyMap
    /\ sector_map = EmptyMap
    /\ args \in [price_histories : PriceHistories \cup {ScenarioDHistories},
                 fx_histories : FxHistories]
    /\ call = NoCall
    /\ ret = None

CallGetHistoricalValue ==
    /\ call = NoCall
    /\ call' = [op |-> "get_historical_value"]
    /\ ret' = get_historical_value(holdings, args.price_histories, args.fx_histories)
    /\ UNCHANGED <<holdings, prices_local, fx_rates, sector_map, args>>

HistNext == CallGetHistoricalValue

HistSpec == HistInit /\ [][HistNext]_vars

Reconstructed == call.op = "get_historical_value"

\* the indices of the holdings whose symbol has a non-empty price history
WithHistory ==
    {i \in 1..Len(holdings) : Available(holdings[i].symbol, args.price_histories)}

\* C15: the date index of get_historical_value is the intersection of the date
\* indices of the holdings that have a non-empty price history, and the result
\* is empty when there is no such holding or no common date; two holdings with
\* 10 dates each that share 3 dates give exactly those 3 dates.
C15_IndexIsIntersection ==
    Reconstructed =>
        /\ DOMAIN ret =
               {t \in 1..17 :
                   /\ WithHistory # {}
                   /\ \A i \in WithHistory :
                          t \in DOMAIN args.price_histories[holdings[i].symbol]}
        /\ (Len(holdings) = 2 /\ args.price_histories = ScenarioDHistories)
               => DOMAIN ret = {8, 9, 10}

\* Scenario D was reconstructed
C15_Witness ==
    /\ Reconstructed
    /\ Len(holdings) = 2
    /\ args.price_histories = ScenarioDHistories
    /\ DOMAIN ret = {8, 9, 10}

\* the FX observations of a currency dated on or before t
ObservedUpTo(currency, t) ==
    {u \in DOMAIN args.fx_histories[currency] : u <= t}

\* no FX history exists for the currency
NoFxHistory(currency) ==
    currency \notin DOMAIN args.fx_histories \/ empty(args.fx_histories[currency])

\* C16: the FX factor get_historical_value applies to a holding on date t is 1.0
\* when the holding's currency is SGD or its currency has no FX history, and
\* otherwise the FX value observed on t or, when t has none, the most recent
\* FX observation dated before t (dates before the first FX observation are
\* left out of the statement).
C16_FxForwardFilled ==
    Reconstructed =>
        /\ \A i \in WithHistory : \A t \in DOMAIN ret :
              LET c == holdings[i].currency
                  fx == FxFactor(c, args.fx_histories, DOMAIN ret)
              IN  IF c = "SGD" \/ NoFxHistory(c) THEN fx[t] = One
                  ELSE ObservedUpTo(c, t) # {}
                          => fx[t] = args.fx_histories[c][Latest(ObservedUpTo(c, t))]
        /\ (holdings = <<Holding("AAPL", 50, "USD")>> /\ ~NoFxHistory("USD"))
              => \A t \in DOMAIN ret :
                    ObservedUpTo("USD", t) # {}
                       => ret[t] = RMul(RMul(R(50), args.price_histories["AAPL"][t]),
                                        args.fx_histories["USD"][Latest(ObservedUpTo("USD", t))])

----------------------------------------------------------------------------
(* Both history functions on one set of histories (HypoSpec).               *)

\* fx_histories: no USD entry, USD rates from some day on (none at all when that
\* day is after the last), or USD rates up to some day
HypoFxHistories ==
    { EmptyMap }
    \cup { [c \in {"USD"} |-> [t \in {u \in Dates : u >= k} |-> ObservedRate(t)]] :
               k \in 1..(MaxDate + 1) }
    \cup { [c \in {"USD"} |-> [t \in {u \in Dates : u <= k} |-> ObservedRate(t)]] :
               k \in 1..(MaxDate - 1) }

\* suggested_weights: full and partial allocations, zero and negative weights,
\* a symbol without history, no symbol at all
HypoWeights ==
    { EmptyMap,
      [sym \in {"D05.SI", "AAPL"} |-> <<1, 2>>],
      [sym \in {"D05.SI", "AAPL"} |-> IF sym = "D05.SI" THEN <<1, 4>> ELSE <<3, 4>>],
      [sym \in {"D05.SI", "AAPL"} |-> IF sym = "D05.SI" THEN One ELSE Zero],
      [sym \in {"D05.SI", "AAPL"} |-> IF sym = "D05.SI" THEN <<-1, 4>> ELSE <<1, 2>>],
      [sym \in {"D05.SI"} |-> <<1, 2>>],
      [sym \in {"AAPL"} |-> One],
      [sym \in CandidateSymbols |-> IF sym = "0700.HK" THEN <<1, 2>> ELSE <<1, 4>>] }

HypoPortfolios ==
    { <<Holding("D05.SI", 100, "USD"), Holding("AAPL", 50, "USD")>> }

HypoInit ==
    /\ holdings \in HypoPortfolios
    /\ prices_local = EmptyMap
    /\ fx_rates = EmptyMap
    /\ sector_map = EmptyMap
    /\ args \in [suggested_weights : HypoWeights,
                 total_invested_sgd : {R(1000)},
                 price_histories : PriceHistories,
                 fx_histories : HypoFxHistories,
                 start_date : Dates]
    /\ call = NoCall
    /\ ret = None

CallGetHypotheticalValue ==
    /\ call = NoCall
    /\ call' = [op |-> "get_hypothetical_value"]
    /\ ret' = get_hypothetical_value(args.suggested_weights, args.total_invested_sgd,
                                     args.price_histories, args.fx_histories,
                                     args.start_date)
    /\ UNCHANGED <<holdings, prices_local, fx_rates, sector_map, args>>

HypoNext == CallGetHistoricalValue \/ CallGetHypotheticalValue

HypoSpec == HypoInit /\ [][HypoNext]_vars

Projected == call.op = "get_hypothetical_value"

\* a series with every observation dated after t changed
ChangedAfter(s, t) ==
    [u \in DOMAIN s |-> IF u > t /\ s[u] # NaN THEN RAdd(s[u], One) ELSE s[u]]

\* histories with every observation dated after t changed
AllChangedAfter(histories, t) ==
    [k \in DOMAIN histories |-> ChangedAfter(histories[k], t)]

\* C17: in get_historical_value and get_hypothetical_value the price and the FX
\* factor used for date t are never taken from an observation dated later than
\* t: the value returned for t is the same when every price and FX observation
\* dated after t is a different one.
C17_NoLookAhead ==
    /\ Reconstructed =>
          \A t \in DOMAIN ret :
              get_historical_value(holdings,
                                   AllChangedAfter(args.price_histories, t),
                                   AllChangedAfter(args.fx_histories, t))[t] = ret[t]
    /\ Projected =>
          \A t \in DOMAIN ret :
              get_hypothetical_value(args.suggested_weights, args.total_invested_sgd,
                                     AllChangedAfter(args.price_histories, t),
                                     AllChangedAfter(args.fx_histories, t),
                                     args.start_date)[t] = ret[t]

\* a projection valued a day on which D05.SI has a row without a close and USD
\* has no rate, both observed the day before
C17_Witness ==
    /\ Projected
    /\ args.suggested_weights = [sym \in {"D05.SI", "AAPL"} |-> <<1, 2>>]
    /\ args.start_date = 2
    /\ args.price_histories =
          [sym \in {"D05.SI", "AAPL"} |->
              IF sym = "D05.SI"
              THEN [t \in 1..3 |-> IF t = 3 THEN NaN ELSE ObservedPrice(sym, t)]
              ELSE [t \in 2..3 |-> ObservedPrice(sym, t)]]
    /\ args.fx_histories = [c \in {"USD"} |-> [t \in 1..2 |-> ObservedRate(t)]]
    /\ DOMAIN ret = {2, 3}
    /\ ret[2] = R(1000)
    /\ ret[3] = R(1500)

\* the symbols with a positive target weight and a present, non-empty history
Eligible ==
    {sym \in DOMAIN args.suggested_weights :
        /\ RLt(Zero, args.suggested_weights[sym])
        /\ Available(sym, args.price_histories)}

\* C18: the dates of get_hypothetical_value are exactly the dates >= start_date
\* in the intersection of the date indices of the symbols with a positive
\* target weight and a present, non-empty price history; a symbol with weight
\* <= 0 or without such a history neither contributes value nor removes dates.
C18_DatesOfEligible ==
    Projected =>
        /\ DOMAIN ret =
               {t \in Dates :
                   /\ t >= args.start_date
                   /\ Eligible # {}
                   /\ \A sym \in Eligible : t \in DOMAIN args.price_histories[sym]}
        /\ ret = get_hypothetical_value(
                     [sym \in Eligible |-> args.suggested_weights[sym]],
                     args.total_invested_sgd,
                     [sym \in Eligible |-> args.price_histories[sym]],
                     args.fx_histories, args.start_date)

\* the symbols the loop of get_hypothetical_value adds to the total
Included ==
    {sym \in DOMAIN args.suggested_weights :
        Contribution(sym, args.suggested_weights, args.total_invested_sgd,
                     args.price_histories, args.fx_histories, DOMAIN ret) # None}

\* C19: every included symbol is bought at (total_invested * weight) / (local
\* price * FX factor on the first date of the result), so the first value of
\* the series is total_invested times the sum of the included symbols' weights
\* (total_invested itself when every positive-weight symbol is included and
\* the weights sum to 1).
C19_FirstValue ==
    (Projected /\ DOMAIN ret # {}) =>
        /\ iloc0(ret) = RMul(args.total_invested_sgd,
                             SumOver(args.suggested_weights, Included))
        /\ (/\ SumValues(args.suggested_weights) = One
             /\ \A sym \in DOMAIN args.suggested_weights :
                    RLt(Zero, args.suggested_weights[sym]) /\ sym \in Included)
               => iloc0(ret) = args.total_invested_sgd

----------------------------------------------------------------------------
(* PortfolioMetrics.get_weighted_metric as a pure function of its arguments *)
(* (MetricSpec).                                                            *)

\* (metric_map.get(sym) or {}).get(key)
MetricValue(metric_map, sym, key) == Get(Get(metric_map, sym, EmptyMap), key, None)

\* the loop of lines 132-135 over the symbols not yet visited
RECURSIVE MetricLoop(_, _, _, _, _)
MetricLoop(weights, metric_map, key, syms, total) ==
    IF syms = {} THEN total
    ELSE LET sym == CHOOSE x \in syms : TRUE
             val == MetricValue(metric_map, sym, key)
         IN  MetricLoop(weights, metric_map, key, syms \ {sym},
                        IF val # None /\ val # Zero
                        THEN RAdd(total, RMul(weights[sym], val))
                        ELSE total)

\* Mutant: an average over the symbols that have a value (the sum is divided by
\* their total weight).
get_weighted_metric_averaged(hs, prices, rates, metric_map, key) ==
    LET weights == get_weights(hs, prices, rates)
        valued == {sym \in DOMAIN weights :
                      /\ MetricValue(metric_map, sym, key) # None
                      /\ MetricValue(metric_map, sym, key) # Zero}
        total == MetricLoop(weights, metric_map, key, DOMAIN weights, Zero)
    IN  IF SumOver(weights, valued) = Zero THEN total
        ELSE RDiv(total, SumOver(weights, valued))

get_weighted_metric(hs, prices, rates, metric_map, key) ==
    LET weights == get_weights(hs, prices, rates)
    IN  MetricLoop(weights, metric_map, key, DOMAIN weights, Zero)

\* the keys of get_stock_metrics the page asks for, and one the maps do not hold
MetricKeys == {"Score", "P/E Ratio", "ROE (%)"}

\* metric values: None, zero, a score, a negative ratio
MetricValues == {None, Zero, R(60), <<-25, 2>>}

\* the metrics of one symbol: any of the two keys may be missing
MetricDicts == UNION {[K -> MetricValues] : K \in SUBSET {"Score", "P/E Ratio"}}

\* metric_map: a symbol may have no entry
MetricMaps == UNION {[S -> MetricDicts] : S \in SUBSET HoldingSymbols}

MetricInit ==
    /\ holdings \in RebalPortfolios
    /\ prices_local \in PriceSnapshots
    /\ fx_rates \in RateTables
    /\ sector_map = EmptyMap
    /\ args \in [metric_map : MetricMaps, key : MetricKeys]
    /\ call = NoCall
    /\ ret = None

CallGetWeightedMetric ==
    /\ call = NoCall
    /\ call' = [op |-> "get_weighted_metric"]
    /\ ret' = get_weighted_metric(holdings, prices_local, fx_rates,
                                  args.metric_map, args.key)
    /\ UNCHANGED <<holdings, prices_local, fx_rates, sector_map, args>>

MetricNext == CallGetWeightedMetric

MetricSpec == MetricInit /\ [][MetricNext]_vars

Measured == call.op = "get_weighted_metric"

\* the weighted symbols whose metrics hold a value for the key
HavingValue(weights) ==
    {sym \in DOMAIN weights :
        /\ sym \in DOMAIN args.metric_map
        /\ args.key \in DOMAIN args.metric_map[sym]
        /\ args.metric_map[sym][args.key] # None}

\* C20: get_weighted_metric returns the sum of weight[s] * metric_map[s][key]
\* over the weighted symbols that have a value for key; a value that is absent
\* or exactly 0 contributes nothing to the sum.
C20_WeightedSum ==
    Measured =>
        LET weights == get_weights(holdings, prices_local, fx_rates)
            products == [sym \in HavingValue(weights) |->
                            RMul(weights[sym], args.metric_map[sym][args.key])]
            nonzero == {sym \in HavingValue(weights) :
                           args.metric_map[sym][args.key] # Zero}
        IN  /\ ret = SumValues(products)
            /\ ret = SumOver(products, nonzero)

\* weights 0.3 and 0.7: a score of 60 for the first symbol, none for the second
C20_Witness ==
    /\ Measured
    /\ holdings = <<Holding("D05.SI", 30, "SGD"), Holding("AAPL", 70, "SGD")>>
    /\ prices_local = [s \in HoldingSymbols |-> R(10)]
    /\ args.key = "Score"
    /\ args.metric_map =
          [sym \in {"D05.SI", "AAPL"} |->
              IF sym = "D05.SI" THEN [k \in {"Score"} |-> R(60)]
              ELSE [k \in {"Score", "P/E Ratio"} |->
                       IF k = "Score" THEN Zero ELSE <<-25, 2>>]]
    /\ ret = R(18)

----------------------------------------------------------------------------
(* Claims about the allocation functions (checked under Spec).              *)

Allocated == call.op \in {"get_region_allocation", "get_sector_allocation"}

\* C21: no group of the mapping returned by get_region_allocation or
\* get_sector_allocation has percentage 0: a region or sector whose priced
\* holdings have zero total value is omitted from the result.
C21_NoZeroGroup ==
    Allocated => \A g \in DOMAIN ret : ret[g] # Zero

\* the priced records of a region: SG for SGD, HK for HKD, US otherwise
InRegion(g) ==
    {i \in PricedIndices :
        g = (IF holdings[i].currency = "SGD" THEN "SG"
             ELSE IF holdings[i].currency = "HKD" THEN "HK" ELSE "US")}

\* the priced records of a sector: Unknown without a sector label
InSector(g) ==
    {i \in PricedIndices :
        g = (IF holdings[i].symbol \in DOMAIN sector_map
                    /\ sector_map[holdings[i].symbol] # ""
             THEN sector_map[holdings[i].symbol] ELSE "Unknown")}

\* C29: whenever the total value is positive, the percentages returned by
\* get_region_allocation sum to 100 and so do those returned by
\* get_sector_allocation, for any holdings list: every priced holding record is
\* counted in exactly one region (SG for SGD, HK for HKD, US otherwise) and in
\* exactly one sector (Unknown without a label), also when several records
\* share a symbol.
C29_AllocationsSumTo100 ==
    /\ (call.op = "get_region_allocation" /\ RLt(Zero, TotalValue)) =>
           /\ SumValues(ret) = R(100)
           /\ DOMAIN ret \subseteq {"SG", "HK", "US"}
           /\ \A g \in {"SG", "HK", "US"} :
                  Get(ret, g, Zero) =
                      RMul(RDiv(SumValueSgd(InRegion(g)), TotalValue), R(100))
    /\ (call.op = "get_sector_allocation" /\ RLt(Zero, TotalValue)) =>
           /\ SumValues(ret) = R(100)
           /\ DOMAIN ret \subseteq {"Financials", "Technology", "Unknown"}
           /\ \A g \in {"Financials", "Technology", "Unknown"} :
                  Get(ret, g, Zero) =
                      RMul(RDiv(SumValueSgd(InSector(g)), TotalValue), R(100))

\* the regions of two priced records of one symbol were computed, both records
\* in the same region
C29_Witness ==
    /\ call.op = "get_region_allocation"
    /\ Len(holdings) = 2
    /\ holdings[1].symbol = holdings[2].symbol
    /\ holdings[1].currency = "HKD"
    /\ holdings[2].currency = "HKD"
    /\ RLt(Zero, TotalValue)
    /\ ret = [g \in {"HK"} |-> R(100)]

----------------------------------------------------------------------------
(* Further claims about suggest_weights (checked under SolverSpec).         *)

\* the passes of the for loop that were started: one per redistribution, and
\* the one that left the loop
Passes == Len(Solved.trace)

\* C23: suggest_weights terminates, and its redistribution loop is left through
\* the surplus-below-epsilon test or the no-entry-below-cap test after at most
\* (number of positive-score candidates + 1) iterations, so range(100) is never
\* what ends the loop when fewer than 100 candidates have a positive score.
C23_LoopLeftByItsTests ==
    (Suggested /\ ValidArgs # {}) =>
        /\ Solved.exit \in {"converged", "saturated"}
        /\ Passes <= Cardinality(ValidArgs) + 1
        /\ Passes <= MaxIterations
        /\ DOMAIN ret = ToSet(args.candidates)

\* three positive scores and a loop that redistributed twice before its
\* surplus test ended it
C23_Witness ==
    /\ Suggested
    /\ Cardinality(ValidArgs) = 3
    /\ Passes = 3
    /\ Solved.exit = "converged"

\* C24: when the loop stops because no entry is strictly below the cap while
\* surplus remains, the weights handed to the final renormalisation are the
\* capped values, whose total is under 1.0.
C24_CappedHandedOver ==
    (Suggested /\ ValidArgs # {} /\ Solved.exit = "saturated") =>
        /\ Solved.weights = Capped(Solved.weights, args.cap)
        /\ RLt(SumValues(Solved.weights), One)

\* the score of a candidate as suggest_weights reads it: scores.get(c, 0)
ScoreOf(c) == Get(args.scores, c, 0)

\* C25: suggest_weights preserves the score ranking: for any two candidates a
\* and b with score[a] >= score[b] the returned weight of a is >= the returned
\* weight of b, for every cap in (0, 1] and every number of candidates.
C25_RankingPreserved ==
    Suggested =>
        \A a \in ToSet(args.candidates), b \in ToSet(args.candidates) :
            ScoreOf(a) >= ScoreOf(b) => RLe(ret[b], ret[a])

----------------------------------------------------------------------------
(* Further claims about get_weighted_metric (checked under MetricSpec).     *)

CurrentWeights == get_weights(holdings, prices_local, fx_rates)

\* the weighted symbols whose value for the key is added to the sum
IncludedInSum ==
    {sym \in HavingValue(CurrentWeights) : args.metric_map[sym][args.key] # Zero}

IncludedValues == {args.metric_map[sym][args.key] : sym \in IncludedInSum}

SmallestIncluded == CHOOSE v \in IncludedValues : \A u \in IncludedValues : RLe(v, u)
LargestIncluded == CHOOSE v \in IncludedValues : \A u \in IncludedValues : RLe(u, v)

\* the total weight of the symbols whose value is added to the sum
IncludedWeight == SumOver(CurrentWeights, IncludedInSum)

----------------------------------------------------------------------------
(* Further claims about get_rebalancing_actions (checked under RebalSpec).  *)

\* C30 as stated: in every record the action agrees with the money delta: a
\* Buy record has delta_sgd > 0 and a Sell record has delta_sgd < 0, for every
\* total_sgd the caller passes, the total of a portfolio with no priced
\* holding included.
C30_ActionAgreesWithDelta ==
    Rebalanced =>
        \A k \in 1..Len(ret) :
            /\ ret[k].action = "Buy" => RLt(Zero, ret[k].delta_sgd)
            /\ ret[k].action = "Sell" => RLt(ret[k].delta_sgd, Zero)

\* C30 amended: the action is decided by delta_pct alone; a Buy record has
\* delta_sgd > 0 and a Sell record has delta_sgd < 0 when total_sgd > 0, and
\* when total_sgd is 0 (no priced holding) every delta_sgd is 0, in Buy and
\* Sell records too.
C30_ActionAgreesWhenValued ==
    Rebalanced =>
        \A k \in 1..Len(ret) :
            /\ ret[k].action = "Buy" => RLt(Zero, ret[k].delta_pct)
            /\ ret[k].action = "Sell" => RLt(ret[k].delta_pct, Zero)
            /\ RLt(Zero, args.total_sgd) =>
                   /\ ret[k].action = "Buy" => RLt(Zero, ret[k].delta_sgd)
                   /\ ret[k].action = "Sell" => RLt(ret[k].delta_sgd, Zero)
            /\ args.total_sgd = Zero => ret[k].delta_sgd = Zero

\* the holdings have no price, the total passed is their value 0, and a target
\* of one half is a Buy of 0 SGD
C30_Witness ==
    /\ Rebalanced
    /\ holdings # << >>
    /\ PricedIndices = {}
    /\ args.total_sgd = TotalValue
    /\ args.total_sgd = Zero
    /\ \E k \in 1..Len(ret) :
           /\ ret[k].action = "Buy"
           /\ ret[k].suggested_pct = R(50)
           /\ ret[k].delta_sgd = Zero

----------------------------------------------------------------------------
(* The Suggested Portfolio tab: suggest_weights on the holdings' symbols    *)
(* and the watchlist, then get_rebalancing_actions on the current total     *)
(* (PlanSpec).                                                              *)

\* list(dict.fromkeys(seq)): the first occurrence of each element, in order
RECURSIVE Deduplicated(_, _)
Deduplicated(seq, seen) ==
    IF seq = << >> THEN << >>
    ELSE IF Head(seq) \in seen THEN Deduplicated(Tail(seq), seen)
         ELSE <<Head(seq)>> \o Deduplicated(Tail(seq), seen \cup {Head(seq)})

\* candidates = list(dict.fromkeys(holding_syms + watchlist))
PlanCandidates(hs, watchlist) ==
    Deduplicated([i \in 1..Len(hs) |-> hs[i].symbol] \o watchlist, {})

\* what the tab computes before it draws
TabSuggestedActions(hs, prices, rates, watchlist, scores, cap) ==
    LET candidates == PlanCandidates(hs, watchlist)
        suggested_weights == suggest_weights(candidates, scores, cap)
        total_sgd == get_portfolio_value_sgd(hs, prices, rates)
    IN  get_rebalancing_actions(hs, prices, rates, suggested_weights, total_sgd)

\* holdings lists the Holdings tab can build, one with a repeated symbol
PlanPortfolios ==
    (RebalPortfolios \ {<< >>})
    \cup { <<Holding("AAPL", 50, "USD"), Holding("AAPL", 50, "USD")>> }

\* the watchlist keys, in the order of the pool
Watchlists ==
    { SelectSeq(SymbolOrder, LAMBDA c : c \in S) : S \in SUBSET CandidateSymbols }

\* the cap the tab passes, and a looser one
PlanCaps == { <<1, 4>>, <<1, 2>> }

PlanInit ==
    /\ holdings \in PlanPortfolios
    /\ prices_local \in PriceSnapshots
    /\ fx_rates \in RateTables
    /\ sector_map = EmptyMap
    /\ args \in [watchlist : Watchlists, scores : ScoreMaps, cap : PlanCaps]
    /\ call = NoCall
    /\ ret = None

TabSuggested ==
    /\ call = NoCall
    /\ holdings # << >>
    /\ call' = [op |-> "_tab_suggested"]
    /\ ret' = TabSuggestedActions(holdings, prices_local, fx_rates,
                                  args.watchlist, args.scores, args.cap)
    /\ UNCHANGED <<holdings, prices_local, fx_rates, sector_map, args>>

PlanNext == TabSuggested

PlanSpec == PlanInit /\ [][PlanNext]_vars

Planned == call.op = "_tab_suggested"

\* the sum of a field over the records of the result
RECURSIVE SumDeltaPct(_)
SumDeltaPct(k) == IF k = 0 THEN Zero ELSE RAdd(ret[k].delta_pct, SumDeltaPct(k - 1))

RECURSIVE SumDeltaSgd(_)
SumDeltaSgd(k) == IF k = 0 THEN Zero ELSE RAdd(ret[k].delta_sgd, SumDeltaSgd(k - 1))

\* C26: rebalancing is cash-neutral: for any holdings list with positive total
\* value and target weights produced by suggest_weights on a non-empty
\* candidate list, the delta_pct values of all records sum to 0 and the
\* delta_sgd values sum to 0.
C26_CashNeutral ==
    (Planned /\ RLt(Zero, TotalValue)) =>
        /\ SumDeltaPct(Len(ret)) = Zero
        /\ SumDeltaSgd(Len(ret)) = Zero

----------------------------------------------------------------------------
(* get_hypothetical_value replaying the holdings themselves: the target     *)
(* weights are the holdings' value weights on the first date of the actual  *)
(* series, the amount invested is the actual value on that date             *)
(* (ReplaySpec).                                                            *)

\* the price of a holding on the dates of the actual series, as line 288 uses it
PriceOn(h, price_histories, index) ==
    ffill(reindex(price_histories[h.symbol], index))

\* the holdings' value weights on date d0 of the actual series
ValueWeightsAt(hs, price_histories, fx_histories, actual, d0) ==
    [sym \in {hs[i].symbol : i \in 1..Len(hs)} |->
        LET h == hs[CHOOSE i \in 1..Len(hs) : hs[i].symbol = sym]
        IN  NDiv(NMul(NMul(R(h.shares), PriceOn(h, price_histories, DOMAIN actual)[d0]),
                      FxFactor(h.currency, fx_histories, DOMAIN actual)[d0]),
                 actual[d0])]

\* both series for one set of holdings and histories
Replay(hs, price_histories, fx_histories) ==
    LET actual == get_historical_value(hs, price_histories, fx_histories)
        d0 == Earliest(DOMAIN actual)
    IN  [actual |-> actual,
         hypothetical |->
             get_hypothetical_value(
                 ValueWeightsAt(hs, price_histories, fx_histories, actual, d0),
                 actual[d0], price_histories, fx_histories, d0)]

\* holdings with distinct symbols; the currency of a holding may differ from
\* the one its symbol's suffix stands for
ReplayPortfolios ==
    { <<Holding("D05.SI", 100, "SGD")>>,
      <<Holding("AAPL", 50, "USD")>>,
      <<Holding("D05.SI", 100, "SGD"), Holding("AAPL", 50, "USD")>>,
      <<Holding("D05.SI", 100, "USD")>>,
      <<Holding("D05.SI", 100, "SGD"), Holding("AAPL", 50, "HKD")>>,
      <<Holding("D05.SI", 100, "USD"), Holding("AAPL", 50, "USD")>> }

\* every holding has a non-empty history, the histories share a date, and
\* every holding has a non-zero price on the first shared date
Replayable(hs, price_histories) ==
    /\ \A i \in 1..Len(hs) : Available(hs[i].symbol, price_histories)
    /\ LET common == {t \in Dates : \A i \in 1..Len(hs) :
                                         t \in DOMAIN price_histories[hs[i].symbol]}
       IN  /\ common # {}
           /\ \A i \in 1..Len(hs) :
                  /\ price_histories[hs[i].symbol][Earliest(common)] # NaN
                  /\ price_histories[hs[i].symbol][Earliest(common)] # Zero

ReplayInit ==
    /\ holdings \in ReplayPortfolios
    /\ prices_local = EmptyMap
    /\ fx_rates = EmptyMap
    /\ sector_map = EmptyMap
    /\ args \in {a \in [price_histories : PriceHistories, fx_histories : FxHistories] :
                    Replayable(holdings, a.price_histories)}
    /\ call = NoCall
    /\ ret = None

CallReplay ==
    /\ call = NoCall
    /\ call' = [op |-> "replay"]
    /\ ret' = Replay(holdings, args.price_histories, args.fx_histories)
    /\ UNCHANGED <<holdings, prices_local, fx_rates, sector_map, args>>

ReplayNext == CallReplay

ReplaySpec == ReplayInit /\ [][ReplayNext]_vars

Replayed == call.op = "replay"

\* the currency of every holding is the one its symbol's suffix stands for
SuffixMatches ==
    \A i \in 1..Len(holdings) :
        holdings[i].currency = (IF holdings[i].symbol = "D05.SI" THEN "SGD"
                                ELSE IF holdings[i].symbol = "0700.HK" THEN "HKD"
                                ELSE "USD")

\* the rate of a currency that get_historical_value and get_hypothetical_value
\* apply on a date of the actual series
RateOn(currency, t) == FxFactor(currency, args.fx_histories, DOMAIN ret.actual)[t]

\* C27: if every holding has a distinct symbol whose suffix matches its
\* currency, a non-empty history and a non-zero price on the first common date
\* d0, then get_hypothetical_value called with the holdings' value weights at
\* d0, the actual value at d0 and start date d0 returns the series of
\* get_historical_value; for a holding whose currency is not the one of the
\* suffix the hypothetical series applies the rates of the suffix's currency
\* where the actual series applies those of the holding's currency, so the
\* two series part where the two rates move differently after d0.
C27_ReplayEquivalence ==
    Replayed =>
        LET d0 == Earliest(DOMAIN ret.actual)
        IN  /\ DOMAIN ret.hypothetical = DOMAIN ret.actual
            /\ ret.hypothetical[d0] = ret.actual[d0]
            /\ SuffixMatches => ret.hypothetical = ret.actual
            /\ Len(holdings) = 1 =>
                  LET h == holdings[1]
                      own == h.currency
                      guessed == IF h.symbol = "D05.SI" THEN "SGD" ELSE "USD"
                  IN  \A t \in DOMAIN ret.actual :
                          ret.hypothetical[t] = ret.actual[t]
                              <=> RMul(RateOn(own, t), RateOn(guessed, d0))
                                    = RMul(RateOn(guessed, t), RateOn(own, d0))

\* two holdings whose currencies match their suffixes were replayed over
\* several dates with a USD rate that moves
C27_Witness ==
    /\ Replayed
    /\ holdings = <<Holding("D05.SI", 100, "SGD"), Holding("AAPL", 50, "USD")>>
    /\ DOMAIN ret.actual = {2, 3}
    /\ DOMAIN args.fx_histories = {"USD"}
    /\ DOMAIN args.fx_histories["USD"] = {2, 3}
    /\ ret.hypothetical = ret.actual
    /\ ret.actual[2] # ret.actual[3]

----------------------------------------------------------------------------
(* Every operation of PortfolioMetrics on one set of argument objects       *)
(* (EngineSpec).  The class has no __init__ and no attribute: the argument  *)
(* objects are all the state an operation could leave changed.              *)

\* an "Add Holding" entry with its purchase price (portfolio.py lines 286-292)
PurchasedHolding(sym, shares, currency, purchase_price) ==
    [symbol |-> sym, company |-> sym, shares |-> shares, currency |-> currency,
     purchase_price |-> purchase_price]

RECURSIVE CostLoop(_, _, _, _)
CostLoop(hs, rates, i, total) ==
    IF i > Len(hs) THEN total
    ELSE CostLoop(hs, rates, i + 1,
                  RAdd(total, RMul(R(hs[i].shares),
                                   get_sgd_price(hs[i].purchase_price,
                                                 hs[i].currency, rates))))

\* get_cost_basis_sgd
get_cost_basis_sgd(hs, rates) == CostLoop(hs, rates, 1, Zero)

EnginePortfolios ==
    { <<PurchasedHolding("D05.SI", 100, "SGD", R(10))>>,
      <<PurchasedHolding("D05.SI", 100, "SGD", R(10)),
        PurchasedHolding("AAPL", 50, "USD", R(20))>>,
      <<PurchasedHolding("AAPL", 50, "USD", R(20)),
        PurchasedHolding("AAPL", 50, "USD", R(10))>> }

EngineSnapshots ==
    { [s \in HoldingSymbols |-> IF s = "D05.SI" THEN R(10) ELSE R(20)],
      [s \in HoldingSymbols |-> IF s = "D05.SI" THEN None ELSE R(20)] }

EngineSectorMaps ==
    { [s \in HoldingSymbols |-> IF s = "D05.SI" THEN "Financials" ELSE "Technology"],
      [s \in {"D05.SI"} |-> ""] }

EngineCandidates ==
    { <<"D05.SI", "AAPL", "0700.HK">>, <<"AAPL", "AAPL">> }

EngineScores ==
    { [c \in CandidateSymbols |->
          IF c = "D05.SI" THEN 60 ELSE IF c = "AAPL" THEN 30 ELSE 10],
      [c \in {"D05.SI", "AAPL"} |-> IF c = "D05.SI" THEN -5 ELSE 30] }

EngineTargets ==
    { [sym \in {"D05.SI", "AAPL"} |-> IF sym = "D05.SI" THEN <<1, 4>> ELSE <<3, 4>>],
      [sym \in {"AAPL"} |-> One] }

EngineMetricMaps ==
    { [s \in HoldingSymbols |-> [k \in {"Score"} |-> R(60)]],
      [s \in {"AAPL"} |-> [k \in {"Score", "P/E Ratio"} |-> None]] }

EnginePriceHistories ==
    { [sym \in {"D05.SI", "AAPL"} |-> [t \in {1, 2} |-> ObservedPrice(sym, t)]],
      [sym \in {"D05.SI"} |-> [t \in {1, 2} |-> IF t = 1 THEN NaN ELSE R(20)]] }

EngineFxHistories ==
    { EmptyMap, [c \in {"USD"} |-> [t \in {1, 2} |-> ObservedRate(t)]] }

EngineInit ==
    /\ holdings \in EnginePortfolios
    /\ prices_local \in EngineSnapshots
    /\ fx_rates \in RateTables
    /\ sector_map \in EngineSectorMaps
    /\ args \in [candidates : EngineCandidates,
                 scores : EngineScores,
                 cap : {<<1, 4>>},
                 suggested_weights : EngineTargets,
                 total_sgd : {R(10000)},
                 local_price : {R(20)},
                 currency : {"USD"},
                 metric_map : EngineMetricMaps,
                 key : {"Score"},
                 price_histories : EnginePriceHistories,
                 fx_histories : EngineFxHistories,
                 total_invested_sgd : {R(1000)},
                 start_date : {1}]
    /\ call = NoCall
    /\ ret = None

CallGetCostBasisSgd ==
    /\ call = NoCall
    /\ call' = [op |-> "get_cost_basis_sgd"]
    /\ ret' = get_cost_basis_sgd(holdings, fx_rates)
    /\ UNCHANGED <<holdings, prices_local, fx_rates, sector_map, args>>

EngineNext ==
    \/ CallGetSgdPrice
    \/ CallGetPortfolioValueSgd
    \/ CallGetCostBasisSgd
    \/ CallGetWeights
    \/ CallGetRegionAllocation
    \/ CallGetSectorAllocation
    \/ CallGetWeightedMetric
    \/ CallSuggestWeights
    \/ CallGetRebalancingActions
    \/ CallGetHistoricalValue
    \/ CallGetHypotheticalValue

EngineSpec == EngineInit /\ [][EngineNext]_vars

====
